---------------------------- MODULE Spec2Model ----------------------------
(***************************************************************************)
(* Model of WebsiteAnalyzer (src/website_analyzer.py): one call of         *)
(* analyze_website, stepped statement by statement, over every behaviour   *)
(* of the network and of the fetched page (Spec); the structural probes    *)
(* on the threshold cases of a page (SpecProbes); step 5 on every          *)
(* combination of signals (SpecStrategy); a caller that analyses a        *)
(* static site twice and explains each result (SpecCaller); two calls     *)
(* whose steps interleave (SpecPair); and the cache AIJobsScraper keeps    *)
(* in front of the analyzer (SpecScraper, src/scraper.py).                 *)
(*                                                                         *)
(* Conventions                                                             *)
(*  - Python None is the string None.                                      *)
(*  - confidence is kept in hundredths: 0.85 is 85, 0.0 is 0, 1.0 is 100.  *)
(*  - a response body is a record of the facts the probes read from it:    *)
(*    whether json.loads accepts it, which marker substrings occur in the  *)
(*    raw text, which job keywords occur, and the element counts that      *)
(*    BeautifulSoup reports.                                               *)
(***************************************************************************)
EXTENDS Integers, Sequences, FiniteSets, TLC

VARIABLES pc, analysis, response, requests, path_idx, probe_hit,
          executed, failed_step, raised, explanation, first, site,
          other, overlapped,
          analysis_cache, source_config, optimal, analyzed, returned

vars == <<pc, analysis, response, requests, path_idx, probe_hit,
          executed, failed_step, raised, explanation, first, site,
          other, overlapped,
          analysis_cache, source_config, optimal, analyzed, returned>>

\* A second call in flight and whether the two calls ran interleaved.
pair_vars == <<other, overlapped>>

\* The AIJobsScraper around the analyzer: its cache, the source it is asked
\* about, what get_optimal_strategy returned last, and per URL how often
\* analyze_website was invoked and which (strategy, confidence) pairs went
\* back to the caller.
scraper_vars == <<analysis_cache, source_config, optimal, analyzed, returned>>

\* What one call of analyze_website neither reads nor writes.
caller_vars == <<explanation, first, site, pair_vars, scraper_vars>>

None == "None"

(***************************************************************************)
(* Inputs: URLs                                                            *)
(***************************************************************************)
\* urlparse splits a URL in scheme://netloc and the rest; only the path is
\* kept of the rest.
Urls ==
  { [origin |-> "https://example.com", path |-> "/jobs"],
    [origin |-> "https://example.com", path |-> "/api/"] }

\* f"{parsed_url.scheme}://{parsed_url.netloc}"
base_domain(url) == url.origin

\* urljoin of scheme://netloc with an absolute path
urljoin(base, path) == [origin |-> base, path |-> path]

\* Mutant: the list names /api/ twice.
api_paths_with_duplicate ==
  << "/api/", "/api/", "/api/v2/", "/api/jobs/", "/api/careers/",
     "/jobs.json", "/careers.json", "/graphql", "/api/search/",
     "/search.json" >>

api_paths ==
  << "/api/", "/api/v1/", "/api/v2/", "/api/jobs/", "/api/careers/",
     "/jobs.json", "/careers.json", "/graphql", "/api/search/",
     "/search.json" >>

(***************************************************************************)
(* Inputs: response bodies                                                 *)
(***************************************************************************)
\* Substrings of the raw body that the regular expressions are run against.
\* Each one stands for the text written in its name.
F_api_path == "fetch('/api/jobs')"
F_graphql  == "graphql"
F_bundle   == "bundle.js"
F_div_app  == "<div id='app'>"
F_captcha  == "captcha"
F_div_class_app  == "<div class='app-shell'>"
F_div_id_myapp   == "<div id='myapp'>"
F_div_class_root == "<div class='root'>"
F_data_vue       == "data-vue"

Fragments == {F_api_path, F_graphql, F_bundle, F_div_app, F_captcha}

\* The pattern tables, as the set of the fragments above each list matches
\* (re.search, IGNORECASE).
api_patterns     == {F_api_path, F_graphql}
spa_patterns     == {F_bundle, F_data_vue}
\* Mutant: any div whose id or class contains app or root is a marker.
dynamic_patterns_contains ==
  {F_div_app, F_div_class_app, F_data_vue, F_div_id_myapp, F_div_class_root}
dynamic_patterns == {F_div_app, F_div_class_app, F_data_vue}
spa_indicators   == {F_div_app}
anti_bot_indicators == {F_captcha}

job_keywords ==
  {"apply now", "job title", "company name", "location", "salary",
   "full-time", "part-time"}

\* Tags whose class attribute is searched for a job pattern.
job_class_search_tags == {"div", "article", "section"}

NoBody == -1

ScriptCounts   == {1, 6}
TemplateCounts == {0}
HeadingCounts  == {0, 1}
AnchorCounts   == {6}
TextLens       == {200, 201, 500}
BodyChildren   == {3, 4}
KeywordSets    == { {"apply now", "location"},
                    {"apply now", "location", "salary"} }
JobClassTags   == { {} }

\* response.text == ''
EmptyDoc ==
  [ is_empty |-> TRUE, json |-> FALSE, text |-> {}, keywords |-> {},
    scripts |-> 0, templates |-> 0, headings |-> 0, anchors |-> 0,
    text_len |-> 0, body_children |-> NoBody, job_class_tags |-> {} ]

\* A body json.loads accepts: no markup in it.
JsonDocs ==
  { [ EmptyDoc EXCEPT !.is_empty = FALSE, !.json = TRUE, !.text = t,
                      !.text_len = 200 ] : t \in SUBSET Fragments }

HtmlDocs ==
  [ is_empty : {FALSE}, json : {FALSE}, text : SUBSET Fragments,
    keywords : KeywordSets, scripts : ScriptCounts,
    templates : TemplateCounts, headings : HeadingCounts,
    anchors : AnchorCounts, text_len : TextLens,
    body_children : BodyChildren, job_class_tags : JobClassTags ]

Docs == {EmptyDoc} \cup JsonDocs \cup HtmlDocs

\* Status codes are kept as their decimal text, so that None compares.
StatusCodes == {"200", "403", "429"}

\* The value of `response` while there is none.
NoResponse == [ status_code |-> None, cf_ray |-> FALSE, doc |-> EmptyDoc ]

\* The value of analysis['url'] before a call.
NoUrl == [ origin |-> None, path |-> None ]

Responses == [ status_code : StatusCodes, cf_ray : BOOLEAN, doc : Docs ]

\* What one sub-path GET can do: raise, or return a status and a body that
\* json.loads accepts or rejects.
SubPathOutcomes ==
  { [raises |-> TRUE, status_code |-> None, json |-> FALSE] } \cup
  [ raises : {FALSE}, status_code : {"200", "403"}, json : BOOLEAN ]

(***************************************************************************)
(* The analysis record and the pure functions of the analyzer              *)
(***************************************************************************)
ResponseTimes == {2, 8}

Signals ==
  {"api_detected", "javascript_heavy", "simple_html", "anti_bot_detected",
   "spa_detected", "job_board_patterns"}

Strategies == {"api", "requests", "selenium"}

\* The dict analyze_website starts from (timestamp and the never-written
\* analysis_details are left out).
\* Mutant: simple_html starts out True.
DefaultAnalysis_simple_true(url) ==
  [ url |-> url, api_detected |-> FALSE, javascript_heavy |-> FALSE,
    simple_html |-> TRUE, anti_bot_detected |-> FALSE,
    spa_detected |-> FALSE, job_board_patterns |-> FALSE,
    response_time |-> 0, status_code |-> None,
    recommended_strategy |-> "selenium", confidence |-> 0, error |-> None ]

DefaultAnalysis(url) ==
  [ url |-> url,
    api_detected |-> FALSE,
    javascript_heavy |-> FALSE,
    simple_html |-> FALSE,
    anti_bot_detected |-> FALSE,
    spa_detected |-> FALSE,
    job_board_patterns |-> FALSE,
    response_time |-> 0,
    status_code |-> None,
    recommended_strategy |-> "selenium",
    confidence |-> 0,
    error |-> None ]

\* re.search of any pattern of a list in the raw body
SearchAny(patterns, doc) == (patterns \cap doc.text) # {}

\* json.loads(response.text) does not raise
IsJson(doc) == doc.json

\* Mutant: the marker loop never matches.
HasApiMarker_never(doc) == FALSE

\* `if response.text:` followed by the api_patterns loop
HasApiMarker(doc) == ~doc.is_empty /\ SearchAny(api_patterns, doc)

B2N(b) == IF b THEN 1 ELSE 0

_analyze_javascript_dependency(doc) ==
  LET i1 == B2N(doc.scripts > 5)
      i2 == B2N(SearchAny(spa_patterns, doc))
      i3 == B2N(SearchAny(dynamic_patterns, doc))
      i4 == B2N(doc.text_len < 500)
      js_indicators == i1 + i2 + i3 + i4
  IN  js_indicators >= 2

\* Mutant: the marker loop is skipped, only the body children are counted.
_detect_spa_patterns_children_only(doc) ==
  doc.body_children # NoBody /\ doc.body_children <= 3

\* Mutant: the children are compared without asking whether a body was
\* found.
_detect_spa_patterns_no_body_check(doc) ==
  IF SearchAny(spa_indicators, doc) THEN TRUE
  ELSE IF doc.body_children <= 3 THEN TRUE
  ELSE FALSE

_detect_spa_patterns(doc) ==
  IF SearchAny(spa_indicators, doc) THEN TRUE
  ELSE IF doc.body_children # NoBody /\ doc.body_children <= 3 THEN TRUE
  ELSE FALSE

\* Mutant: more than 3 keywords are asked for.
_detect_job_board_patterns_gt3(doc) ==
  IF (doc.job_class_tags \cap job_class_search_tags) # {} THEN TRUE
  ELSE Cardinality(doc.keywords \cap job_keywords) > 3

\* Mutant: the class of every element is searched, whatever its tag.
_detect_job_board_patterns_any_tag(doc) ==
  IF doc.job_class_tags # {} THEN TRUE
  ELSE Cardinality(doc.keywords \cap job_keywords) >= 3

_detect_job_board_patterns(doc) ==
  IF (doc.job_class_tags \cap job_class_search_tags) # {} THEN TRUE
  ELSE LET keyword_count == Cardinality(doc.keywords \cap job_keywords)
       IN  keyword_count >= 3

\* Mutant: ten template and script elements already count as complex.
_analyze_html_simplicity_ge10(doc) ==
  LET has_headings == doc.headings > 0
      has_links == doc.anchors > 5
      has_text_content == doc.text_len > 200
      complex_indicators == (doc.templates + doc.scripts) >= 10
  IN  has_headings /\ has_links /\ has_text_content /\ ~complex_indicators

_analyze_html_simplicity(doc) ==
  LET has_headings == doc.headings > 0
      has_links == doc.anchors > 5
      has_text_content == doc.text_len > 200
      complex_indicators == (doc.templates + doc.scripts) > 10
  IN  has_headings /\ has_links /\ has_text_content /\ ~complex_indicators

\* Mutant: status 429 is not taken for an anti-bot measure.
_detect_anti_bot_measures_no_429(resp) ==
  IF SearchAny(anti_bot_indicators, resp.doc) THEN TRUE
  ELSE IF resp.cf_ray THEN TRUE
  ELSE IF resp.status_code \in {"403"} THEN TRUE
  ELSE FALSE

_detect_anti_bot_measures(resp) ==
  IF SearchAny(anti_bot_indicators, resp.doc) THEN TRUE
  ELSE IF resp.cf_ray THEN TRUE
  ELSE IF resp.status_code \in {"403", "429"} THEN TRUE
  ELSE FALSE

\* Mutant: the anti-bot override is applied before the javascript/SPA bump.
_determine_strategy_bump_last(a) ==
  IF a.api_detected /\ ~a.anti_bot_detected THEN <<"api", 90>>
  ELSE IF a.simple_html /\ ~a.javascript_heavy /\ ~a.spa_detected
          /\ ~a.anti_bot_detected
       THEN <<"requests", IF a.job_board_patterns THEN 85 ELSE 80>>
  ELSE LET c1 == 60
           c2 == IF a.anti_bot_detected THEN 40 ELSE c1
           c3 == IF a.javascript_heavy \/ a.spa_detected THEN 80 ELSE c2
       IN  <<"selenium", c3>>

\* Mutant: the API branch does not look at anti_bot_detected.
_determine_strategy_api_first(a) ==
  IF a.api_detected THEN <<"api", 90>>
  ELSE IF a.simple_html /\ ~a.javascript_heavy /\ ~a.spa_detected
          /\ ~a.anti_bot_detected
       THEN <<"requests", IF a.job_board_patterns THEN 85 ELSE 80>>
  ELSE LET c1 == 60
           c2 == IF a.javascript_heavy \/ a.spa_detected THEN 80 ELSE c1
           c3 == IF a.anti_bot_detected THEN 40 ELSE c2
       IN  <<"selenium", c3>>

\* Mutant: a slow response lowers the confidence.
_determine_strategy_slow_penalty(a) ==
  LET penalty == IF a.response_time > 5 THEN 10 ELSE 0
  IN
  IF a.api_detected /\ ~a.anti_bot_detected THEN <<"api", 90 - penalty>>
  ELSE IF a.simple_html /\ ~a.javascript_heavy /\ ~a.spa_detected
          /\ ~a.anti_bot_detected
       THEN <<"requests", (IF a.job_board_patterns THEN 85 ELSE 80) - penalty>>
  ELSE LET c1 == 60
           c2 == IF a.javascript_heavy \/ a.spa_detected THEN 80 ELSE c1
           c3 == IF a.anti_bot_detected THEN 40 ELSE c2
       IN  <<"selenium", c3 - penalty>>

\* Mutant: the selenium fallback starts from confidence 0.2.
_determine_strategy_low_default(a) ==
  IF a.api_detected /\ ~a.anti_bot_detected THEN <<"api", 90>>
  ELSE IF a.simple_html /\ ~a.javascript_heavy /\ ~a.spa_detected
          /\ ~a.anti_bot_detected
       THEN <<"requests", IF a.job_board_patterns THEN 85 ELSE 80>>
  ELSE LET c1 == 20
           c2 == IF a.javascript_heavy \/ a.spa_detected THEN 80 ELSE c1
           c3 == IF a.anti_bot_detected THEN 40 ELSE c2
       IN  <<"selenium", c3>>

_determine_strategy(a) ==
  IF a.api_detected /\ ~a.anti_bot_detected THEN <<"api", 90>>
  ELSE IF a.simple_html /\ ~a.javascript_heavy /\ ~a.spa_detected
          /\ ~a.anti_bot_detected
       THEN <<"requests", IF a.job_board_patterns THEN 85 ELSE 80>>
  ELSE LET c1 == 60
           c2 == IF a.javascript_heavy \/ a.spa_detected THEN 80 ELSE c1
           c3 == IF a.anti_bot_detected THEN 40 ELSE c2
       IN  <<"selenium", c3>>

\* f"{confidence:.1%}" of a confidence kept in hundredths
Percent1(confidence) == ToString(confidence) \o ".0%"

\* Python truthiness of a value that is None or a str
Truthy(v) == v # None /\ v # ""

\* The dict of the three sentences and the default of explanations.get.  A
\* line is the sequence of the pieces the f-string joins.
explanations(strategy, confidence) ==
  CASE strategy = "api" ->
         << "API endpoints detected. Direct API access recommended (confidence: ",
            Percent1(confidence), ")" >>
    [] strategy = "requests" ->
         << "Simple HTML structure detected. HTTP requests with parsing recommended (confidence: ",
            Percent1(confidence), ")" >>
    [] strategy = "selenium" ->
         << "Complex JavaScript/SPA detected or fallback needed. Browser automation recommended (confidence: ",
            Percent1(confidence), ")" >>
    [] OTHER -> << "Unknown strategy: ", strategy >>

\* The warning texts, without the warning sign each begins with.
AntiBotWarning ==
  << "Anti-bot measures detected - scraping may be challenging" >>
SlowWarning == << "Slow response time detected" >>
ErrorWarning(error) == << "Analysis error: ", error >>

\* Mutant: the explanation also looks at the status code.
get_strategy_explanation_reads_status(a) ==
  LET explanation_ == explanations(a.recommended_strategy, a.confidence)
      w1 == IF a.anti_bot_detected \/ a.status_code = "403"
            THEN <<AntiBotWarning>> ELSE <<>>
      w2 == IF a.response_time > 5 THEN <<SlowWarning>> ELSE <<>>
      w3 == IF Truthy(a.error) THEN <<ErrorWarning(a.error)>> ELSE <<>>
      warnings == w1 \o w2 \o w3
  IN  <<explanation_>> \o warnings

\* The returned string as the sequence of its lines (split at "\n").
get_strategy_explanation(a) ==
  LET explanation_ == explanations(a.recommended_strategy, a.confidence)
      w1 == IF a.anti_bot_detected THEN <<AntiBotWarning>> ELSE <<>>
      w2 == IF a.response_time > 5 THEN <<SlowWarning>> ELSE <<>>
      w3 == IF Truthy(a.error) THEN <<ErrorWarning(a.error)>> ELSE <<>>
      warnings == w1 \o w2 \o w3
  IN  <<explanation_>> \o warnings

\* One pass of the api_paths loop body on the response the GET produced:
\* TRUE when the loop returns True.
\* Mutant: the status code of the sub-path response is not checked.
SubPathIsApi_any_status(o) == ~o.raises /\ o.json

SubPathIsApi(o) == ~o.raises /\ o.status_code = "200" /\ o.json

\* Mutant: the handler lets the exception through.
ExceptHandler_reraise(a, e) ==
  [ analysis |-> a, raised |-> TRUE ]

\* Mutant: the handler swallows the exception without recording it.
ExceptHandler_swallow(a, e) ==
  [ analysis |-> a, raised |-> FALSE ]

\* Mutant: the handler still resolves a strategy from the signals so far.
ExceptHandler_resolves(a, e) ==
  [ analysis |-> [a EXCEPT !.error = e,
                           !.recommended_strategy = _determine_strategy(a)[1],
                           !.confidence = _determine_strategy(a)[2]],
    raised |-> FALSE ]

\* Mutant: the handler also forgets the status code.
ExceptHandler_clears_status(a, e) ==
  [ analysis |-> [a EXCEPT !.error = e, !.status_code = None],
    raised |-> FALSE ]

\* except Exception as e: analysis['error'] = str(e)
ExceptHandler(a, e) ==
  [ analysis |-> [a EXCEPT !.error = e],
    raised |-> FALSE ]

(***************************************************************************)
(* The state machine of one analyze_website call                           *)
(***************************************************************************)
\* _scrape_all_sources skips a source whose confidence is below 0.3.
LowConfidence(confidence) == confidence < 30

\* The value of `first` before a call has returned to the caller.
NoFirst == DefaultAnalysis(NoUrl)

\* The value of `site` where the network is not fixed in advance.
NoSite ==
  [ primary |-> NoResponse, hit_at |-> 0,
    fail |-> [raises |-> TRUE, status_code |-> None, json |-> FALSE],
    raises_at |-> None ]

\* No second call is in flight.
NoOther ==
  [ pc |-> "idle", analysis |-> DefaultAnalysis(NoUrl),
    response |-> NoResponse, requests |-> <<>>, path_idx |-> 0,
    probe_hit |-> FALSE, executed |-> <<>>, failed_step |-> None,
    raised |-> FALSE, site |-> NoSite ]

NoPair == other = NoOther /\ overlapped = FALSE

\* self.analysis_cache = {}
EmptyCache == [u \in {} |-> NoFirst]

\* The value of `source_config` before get_optimal_strategy is called.
NoSource == [type |-> None, url |-> NoUrl]

\* A freshly constructed AIJobsScraper that was asked nothing yet.
NewScraper ==
  /\ analysis_cache = EmptyCache
  /\ source_config = NoSource
  /\ optimal = <<>>
  /\ analyzed = [u \in Urls |-> 0]
  /\ returned = [u \in Urls |-> {}]

Init ==
  /\ pc = "idle"
  /\ analysis = DefaultAnalysis(NoUrl)
  /\ response = NoResponse
  /\ requests = <<>>
  /\ path_idx = 0
  /\ probe_hit = FALSE
  /\ executed = <<>>
  /\ failed_step = None
  /\ raised = FALSE
  /\ explanation = <<>>
  /\ first = NoFirst
  /\ site = NoSite
  /\ NoPair
  /\ NewScraper

\* analyze_website(url) is entered: the result dict is built.
CallWith(url) ==
  /\ pc = "idle"
  /\ analysis' = DefaultAnalysis(url)
  /\ pc' = "fetch"
  /\ UNCHANGED <<response, requests, path_idx, probe_hit, executed,
                 failed_step, raised>>
  /\ UNCHANGED caller_vars

\* _test_basic_request returns a response.
FetchReturns(resp, rt) ==
  /\ pc = "fetch"
  /\ requests' = Append(requests, analysis.url)
  /\ response' = resp
  /\ analysis' = [analysis EXCEPT !.response_time = rt,
                                  !.status_code = resp.status_code]
  /\ executed' = Append(executed, "fetch")
  /\ pc' = "api"
  /\ UNCHANGED <<path_idx, probe_hit, failed_step, raised>>
  /\ UNCHANGED caller_vars

\* Mutant: the failed fetch returns without recording the error.
FetchRaises_no_error(rt) ==
  /\ pc = "fetch"
  /\ requests' = Append(requests, analysis.url)
  /\ response' = NoResponse
  /\ analysis' = [analysis EXCEPT !.response_time = rt]
  /\ executed' = Append(executed, "fetch")
  /\ failed_step' = "fetch"
  /\ pc' = "done"
  /\ UNCHANGED <<path_idx, probe_hit, raised>>
  /\ UNCHANGED caller_vars

\* session.get raises: _test_basic_request returns None.
FetchRaises(rt) ==
  /\ pc = "fetch"
  /\ requests' = Append(requests, analysis.url)
  /\ response' = NoResponse
  /\ analysis' = [analysis EXCEPT !.response_time = rt,
                                  !.error = "Failed to connect to website"]
  /\ executed' = Append(executed, "fetch")
  /\ failed_step' = "fetch"
  /\ pc' = "done"
  /\ UNCHANGED <<path_idx, probe_hit, raised>>
  /\ UNCHANGED caller_vars

\* _detect_api_endpoints up to the api_paths loop.
DetectApiBody ==
  /\ pc = "api"
  /\ executed' = Append(executed, "api")
  /\ IF IsJson(response.doc) \/ HasApiMarker(response.doc)
     THEN /\ analysis' = [analysis EXCEPT !.api_detected = TRUE]
          /\ pc' = "html"
          /\ UNCHANGED path_idx
     ELSE /\ pc' = "api_paths"
          /\ path_idx' = 1
          /\ UNCHANGED analysis
  /\ UNCHANGED <<response, requests, probe_hit, failed_step, raised>>
  /\ UNCHANGED caller_vars

\* Mutant: a successful probe does not leave the loop.
ProbePath_no_stop(o) ==
  /\ pc = "api_paths"
  /\ path_idx <= Len(api_paths)
  /\ requests' = Append(requests,
                   urljoin(base_domain(analysis.url), api_paths[path_idx]))
  /\ IF path_idx = Len(api_paths)
     THEN /\ analysis' = [analysis EXCEPT !.api_detected = SubPathIsApi(o)]
          /\ pc' = "html"
          /\ UNCHANGED path_idx
     ELSE /\ analysis' = [analysis EXCEPT !.api_detected =
                                     (@ \/ SubPathIsApi(o))]
          /\ path_idx' = path_idx + 1
          /\ UNCHANGED pc
  /\ probe_hit' = (probe_hit \/ (~o.raises /\ o.status_code = "200" /\ o.json))
  /\ UNCHANGED <<response, executed, failed_step, raised>>
  /\ UNCHANGED caller_vars

\* Mutant: an exception of session.get leaves the loop and reaches the
\* handler of analyze_website.
ProbePath_raise_propagates(o) ==
  /\ pc = "api_paths"
  /\ path_idx <= Len(api_paths)
  /\ requests' = Append(requests,
                   urljoin(base_domain(analysis.url), api_paths[path_idx]))
  /\ IF o.raises
     THEN /\ analysis' = ExceptHandler(analysis, "exception in api").analysis
          /\ failed_step' = "api"
          /\ pc' = "done"
          /\ UNCHANGED path_idx
     ELSE IF SubPathIsApi(o)
     THEN /\ analysis' = [analysis EXCEPT !.api_detected = TRUE]
          /\ pc' = "html"
          /\ UNCHANGED <<path_idx, failed_step>>
     ELSE IF path_idx = Len(api_paths)
     THEN /\ analysis' = [analysis EXCEPT !.api_detected = FALSE]
          /\ pc' = "html"
          /\ UNCHANGED <<path_idx, failed_step>>
     ELSE /\ path_idx' = path_idx + 1
          /\ UNCHANGED <<analysis, pc, failed_step>>
  /\ probe_hit' = (probe_hit \/ (~o.raises /\ o.status_code = "200" /\ o.json))
  /\ UNCHANGED <<response, executed, raised>>
  /\ UNCHANGED caller_vars

\* Mutant: a sub-path answering 403 or 429 marks the site as guarded.
ProbePath_blocked_sets_antibot(o) ==
  /\ pc = "api_paths"
  /\ path_idx <= Len(api_paths)
  /\ requests' = Append(requests,
                   urljoin(base_domain(analysis.url), api_paths[path_idx]))
  /\ LET blocked == ~o.raises /\ o.status_code \in {"403", "429"}
         a == [analysis EXCEPT !.anti_bot_detected = (@ \/ blocked)]
     IN  IF SubPathIsApi(o)
         THEN /\ analysis' = [a EXCEPT !.api_detected = TRUE]
              /\ pc' = "html"
              /\ UNCHANGED path_idx
         ELSE IF path_idx = Len(api_paths)
         THEN /\ analysis' = [a EXCEPT !.api_detected = FALSE]
              /\ pc' = "html"
              /\ UNCHANGED path_idx
         ELSE /\ path_idx' = path_idx + 1
              /\ analysis' = a
              /\ UNCHANGED pc
  /\ probe_hit' = (probe_hit \/ (~o.raises /\ o.status_code = "200" /\ o.json))
  /\ UNCHANGED <<response, executed, failed_step, raised>>
  /\ UNCHANGED caller_vars

\* Mutant: a sub-path whose GET raises is requested again.
ProbePath_retry(o) ==
  /\ pc = "api_paths"
  /\ path_idx <= Len(api_paths)
  /\ requests' = Append(requests,
                   urljoin(base_domain(analysis.url), api_paths[path_idx]))
  /\ IF o.raises
     THEN UNCHANGED <<analysis, pc, path_idx>>
     ELSE IF SubPathIsApi(o)
     THEN /\ analysis' = [analysis EXCEPT !.api_detected = TRUE]
          /\ pc' = "html"
          /\ UNCHANGED path_idx
     ELSE IF path_idx = Len(api_paths)
     THEN /\ analysis' = [analysis EXCEPT !.api_detected = FALSE]
          /\ pc' = "html"
          /\ UNCHANGED path_idx
     ELSE /\ path_idx' = path_idx + 1
          /\ UNCHANGED <<analysis, pc>>
  /\ probe_hit' = (probe_hit \/ (~o.raises /\ o.status_code = "200" /\ o.json))
  /\ UNCHANGED <<response, executed, failed_step, raised>>
  /\ UNCHANGED caller_vars

\* One iteration of the api_paths loop; after the last path the function
\* returns False.
ProbePath(o) ==
  /\ pc = "api_paths"
  /\ path_idx <= Len(api_paths)
  /\ requests' = Append(requests,
                   urljoin(base_domain(analysis.url), api_paths[path_idx]))
  /\ IF SubPathIsApi(o)
     THEN /\ analysis' = [analysis EXCEPT !.api_detected = TRUE]
          /\ pc' = "html"
          /\ UNCHANGED path_idx
     ELSE IF path_idx = Len(api_paths)
     THEN /\ analysis' = [analysis EXCEPT !.api_detected = FALSE]
          /\ pc' = "html"
          /\ UNCHANGED path_idx
     ELSE /\ path_idx' = path_idx + 1
          /\ UNCHANGED <<analysis, pc>>
  /\ probe_hit' = (probe_hit \/ (~o.raises /\ o.status_code = "200" /\ o.json))
  /\ UNCHANGED <<response, executed, failed_step, raised>>
  /\ UNCHANGED caller_vars

\* Mutant: the anti-bot check runs right after the parse.
ParseHtml_antibot_first ==
  /\ pc = "html"
  /\ pc' = "antibot"
  /\ executed' = Append(executed, "html")
  /\ UNCHANGED <<analysis, response, requests, path_idx, probe_hit,
                 failed_step, raised>>
  /\ UNCHANGED caller_vars

\* Mutant: the structural probes run on an empty body too.
ParseHtml_always_probes ==
  /\ pc = "html"
  /\ pc' = "js"
  /\ executed' = Append(executed, "html")
  /\ UNCHANGED <<analysis, response, requests, path_idx, probe_hit,
                 failed_step, raised>>
  /\ UNCHANGED caller_vars

\* `if response.text:` and the BeautifulSoup constructor.
ParseHtml ==
  /\ pc = "html"
  /\ pc' = IF response.doc.is_empty THEN "antibot" ELSE "js"
  /\ executed' = Append(executed, "html")
  /\ UNCHANGED <<analysis, response, requests, path_idx, probe_hit,
                 failed_step, raised>>
  /\ UNCHANGED caller_vars

ProbeStep(here, key, value, next) ==
  /\ pc = here
  /\ analysis' = [analysis EXCEPT ![key] = value]
  /\ executed' = Append(executed, here)
  /\ pc' = next
  /\ UNCHANGED <<response, requests, path_idx, probe_hit, failed_step,
                 raised>>
  /\ UNCHANGED caller_vars

JavascriptStep ==
  ProbeStep("js", "javascript_heavy",
            _analyze_javascript_dependency(response.doc), "spa")

SpaStep ==
  ProbeStep("spa", "spa_detected", _detect_spa_patterns(response.doc), "job")

JobBoardStep ==
  ProbeStep("job", "job_board_patterns",
            _detect_job_board_patterns(response.doc), "simple")

SimplicityStep ==
  ProbeStep("simple", "simple_html",
            _analyze_html_simplicity(response.doc), "antibot")

AntiBotStep ==
  ProbeStep("antibot", "anti_bot_detected",
            _detect_anti_bot_measures(response), "strategy")

\* Step 5 and the return.
StrategyStep ==
  /\ pc = "strategy"
  /\ LET r == _determine_strategy(analysis)
     IN  analysis' = [analysis EXCEPT !.recommended_strategy = r[1],
                                      !.confidence = r[2]]
  /\ executed' = Append(executed, "strategy")
  /\ pc' = "done"
  /\ UNCHANGED <<response, requests, path_idx, probe_hit, failed_step,
                 raised>>
  /\ UNCHANGED caller_vars

\* The places after the primary fetch where an exception can leave a step:
\* urlparse in _detect_api_endpoints (after json.loads and the markers gave
\* nothing), the BeautifulSoup constructor, the four structural probes and
\* _detect_anti_bot_measures.  None of them has a handler of its own; the
\* api_paths loop body is wrapped in a bare except and _determine_strategy
\* only reads keys the dict has.
RaisingSteps == {"api", "html", "js", "spa", "job", "simple", "antibot"}

CanRaise(step) ==
  /\ step \in RaisingSteps
  /\ step = "api" => ~IsJson(response.doc) /\ ~HasApiMarker(response.doc)
  /\ step = "html" => ~response.doc.is_empty

\* str(e) of the exceptions a step can raise: a message, or the empty
\* string of an exception raised without arguments (MemoryError()).
Exceptions(step) == {"", "exception in " \o step}

\* An exception leaves the step at pc and reaches the handler of
\* analyze_website.
StepRaises ==
  /\ CanRaise(pc)
  /\ \E e \in Exceptions(pc) :
       LET h == ExceptHandler(analysis, e)
       IN  /\ analysis' = h.analysis
           /\ raised' = h.raised
  /\ failed_step' = pc
  /\ executed' = Append(executed, pc)
  /\ pc' = "done"
  /\ UNCHANGED <<response, requests, path_idx, probe_hit>>
  /\ UNCHANGED caller_vars

\* The caller explains the result it got (scraper.py, the GUI and main()).
Explain ==
  /\ pc = "done"
  /\ explanation = <<>>
  /\ explanation' = get_strategy_explanation(analysis)
  /\ UNCHANGED <<pc, analysis, response, requests, path_idx, probe_hit,
                 executed, failed_step, raised, first, site>>
  /\ UNCHANGED <<pair_vars, scraper_vars>>

\* The actions draw their inputs only where the call stands at them.
Call == pc = "idle" /\ \E url \in Urls : CallWith(url)

PrimaryFetchOk ==
  pc = "fetch" /\ \E resp \in Responses, rt \in ResponseTimes :
                     FetchReturns(resp, rt)

PrimaryFetchFails == pc = "fetch" /\ \E rt \in ResponseTimes : FetchRaises(rt)

ProbeApiPath ==
  pc = "api_paths" /\ \E o \in SubPathOutcomes : ProbePath(o)

Next ==
  \/ Call
  \/ PrimaryFetchOk
  \/ PrimaryFetchFails
  \/ DetectApiBody
  \/ ProbeApiPath
  \/ ParseHtml
  \/ JavascriptStep
  \/ SpaStep
  \/ JobBoardStep
  \/ SimplicityStep
  \/ AntiBotStep
  \/ StrategyStep
  \/ StepRaises

Spec == Init /\ [][Next]_vars

(***************************************************************************)
(* The caller of the analyzer against a static site: what the primary URL *)
(* and each sub-path answer, and where the processing of that answer      *)
(* raises, is fixed for the whole behaviour.  The caller analyses the     *)
(* site, explains the result, and does the same once more.                *)
(***************************************************************************)
SiteTexts == { {}, {F_api_path}, {F_bundle, F_div_app}, {F_captcha} }

SiteDocs ==
  {EmptyDoc} \cup
  { [EmptyDoc EXCEPT !.is_empty = FALSE, !.json = TRUE, !.text_len = 200] }
  \cup
  [ is_empty : {FALSE}, json : {FALSE}, text : SiteTexts,
    keywords : { {"apply now", "location", "salary"} }, scripts : {1},
    templates : {0}, headings : {1}, anchors : {6}, text_len : {201, 500},
    body_children : {4}, job_class_tags : { {} } ]

SiteResponses ==
  [ status_code : {"200", "403"}, cf_ray : {FALSE}, doc : SiteDocs ]

\* The sub-path that answers 200 with JSON; 0 when none does.
SiteHits == {0, 2, 10}

SubPathHit == [raises |-> FALSE, status_code |-> "200", json |-> TRUE]

NoException == [step |-> None, e |-> None]

SiteExceptions ==
  {NoException} \cup
  UNION { { [step |-> s, e |-> m] : m \in Exceptions(s) } :
          s \in RaisingSteps }

\* What a sub-path that is no JSON endpoint answers on a site: the GET
\* raises, or returns an error page, which may speak of a captcha.
SiteFails ==
  { [raises |-> TRUE, status_code |-> None, json |-> FALSE,
     captcha |-> FALSE],
    [raises |-> FALSE, status_code |-> "403", json |-> FALSE,
     captcha |-> TRUE],
    [raises |-> FALSE, status_code |-> "429", json |-> TRUE,
     captcha |-> FALSE],
    [raises |-> FALSE, status_code |-> "200", json |-> FALSE,
     captcha |-> TRUE] }

Sites ==
  [ primary : SiteResponses \cup {NoResponse},
    hit_at : SiteHits,
    fail : SiteFails,
    raises : SiteExceptions ]

\* What the GET of the i-th sub-path produces on site s.
SiteOutcome(s, i) == IF i = s.hit_at THEN SubPathHit ELSE s.fail

InitCaller ==
  /\ pc = "idle"
  /\ analysis = DefaultAnalysis(NoUrl)
  /\ response = NoResponse
  /\ requests = <<>>
  /\ path_idx = 0
  /\ probe_hit = FALSE
  /\ executed = <<>>
  /\ failed_step = None
  /\ raised = FALSE
  /\ explanation = <<>>
  /\ first = NoFirst
  /\ site \in Sites
  /\ NoPair
  /\ NewScraper

SiteFetchOk ==
  /\ pc = "fetch"
  /\ site.primary # NoResponse
  /\ \E rt \in ResponseTimes : FetchReturns(site.primary, rt)

SiteFetchFails ==
  /\ pc = "fetch"
  /\ site.primary = NoResponse
  /\ \E rt \in ResponseTimes : FetchRaises(rt)

SiteProbe == pc = "api_paths" /\ ProbePath(SiteOutcome(site, path_idx))

\* The step at pc raises on this site.
RaisesHere == site.raises.step = pc /\ CanRaise(pc)

SiteRaises == RaisesHere /\ StepRaises /\ analysis'.error = site.raises.e

\* analyze_website is called again on the URL of the result just explained.
CallAgain ==
  /\ pc = "done"
  /\ explanation # <<>>
  /\ first = NoFirst
  /\ first' = analysis
  /\ analysis' = DefaultAnalysis(analysis.url)
  /\ pc' = "fetch"
  /\ response' = NoResponse
  /\ requests' = <<>>
  /\ path_idx' = 0
  /\ probe_hit' = FALSE
  /\ executed' = <<>>
  /\ failed_step' = None
  /\ explanation' = <<>>
  /\ UNCHANGED <<raised, site>>
  /\ UNCHANGED <<pair_vars, scraper_vars>>

NextCaller ==
  \/ Call
  \/ SiteFetchOk
  \/ SiteFetchFails
  \/ (~RaisesHere /\ DetectApiBody)
  \/ SiteProbe
  \/ (~RaisesHere /\ ParseHtml)
  \/ (~RaisesHere /\ JavascriptStep)
  \/ (~RaisesHere /\ SpaStep)
  \/ (~RaisesHere /\ JobBoardStep)
  \/ (~RaisesHere /\ SimplicityStep)
  \/ (~RaisesHere /\ AntiBotStep)
  \/ StrategyStep
  \/ SiteRaises
  \/ Explain
  \/ CallAgain

SpecCaller == InitCaller /\ [][NextCaller]_vars

\* Every request completes or times out and the interpreter keeps running:
\* a step that can be taken is taken.
SpecCallerFair == SpecCaller /\ WF_vars(NextCaller)

(***************************************************************************)
\* analyze_website(url) run from entry to return with nothing else going on,
\* against site s and with the primary GET taking rt seconds: the body of
\* the function read top to bottom.
AnalyzeAlone(url, s, rt) ==
  LET a0 == DefaultAnalysis(url)
      resp == s.primary
      doc == resp.doc
      At(step) == s.raises.step = step
      Fail(a) == ExceptHandler(a, s.raises.e).analysis
      a1 == [a0 EXCEPT !.response_time = rt,
                       !.status_code = resp.status_code]
      in_body == IsJson(doc) \/ HasApiMarker(doc)
      by_path == \E i \in 1..Len(api_paths) : SubPathIsApi(SiteOutcome(s, i))
      a2 == [a1 EXCEPT !.api_detected = in_body \/ by_path]
      a3 == [a2 EXCEPT !.javascript_heavy =
                          _analyze_javascript_dependency(doc)]
      a4 == [a3 EXCEPT !.spa_detected = _detect_spa_patterns(doc)]
      a5 == [a4 EXCEPT !.job_board_patterns = _detect_job_board_patterns(doc)]
      a6 == [a5 EXCEPT !.simple_html = _analyze_html_simplicity(doc)]
      Resolve(a) ==
        [a EXCEPT !.recommended_strategy = _determine_strategy(a)[1],
                  !.confidence = _determine_strategy(a)[2]]
      Step4(a) ==
        IF At("antibot") THEN Fail(a)
        ELSE Resolve([a EXCEPT !.anti_bot_detected =
                                  _detect_anti_bot_measures(resp)])
  IN  IF resp = NoResponse
      THEN [a0 EXCEPT !.response_time = rt,
                      !.error = "Failed to connect to website"]
      ELSE IF At("api") /\ ~in_body THEN Fail(a1)
      ELSE IF doc.is_empty THEN Step4(a2)
      ELSE IF At("html") \/ At("js") THEN Fail(a2)
      ELSE IF At("spa") THEN Fail(a3)
      ELSE IF At("job") THEN Fail(a4)
      ELSE IF At("simple") THEN Fail(a5)
      ELSE Step4(a6)

(* Two analyze_website calls in flight, each on its own WebsiteAnalyzer   *)
(* and so on its own session: the variables of the state machine hold the *)
(* call that is running, `other` holds the call that is waiting, and the  *)
(* scheduler may switch between them before any step.  Each call has the  *)
(* site its own session talks to.                                         *)
(***************************************************************************)
\* The locals of the running call (analysis, response, the position in the
\* code and in the api_paths loop) and what its session sent and receives.
Here ==
  [ pc |-> pc, analysis |-> analysis, response |-> response,
    requests |-> requests, path_idx |-> path_idx, probe_hit |-> probe_hit,
    executed |-> executed, failed_step |-> failed_step, raised |-> raised,
    site |-> site ]

Running(c) == c.pc \notin {"idle", "done"}

\* Mutant: the result dict is one object both calls write to.
Switch_shared_analysis ==
  /\ other' = Here
  /\ pc' = other.pc
  /\ response' = other.response
  /\ requests' = other.requests
  /\ path_idx' = other.path_idx
  /\ probe_hit' = other.probe_hit
  /\ executed' = other.executed
  /\ failed_step' = other.failed_step
  /\ raised' = other.raised
  /\ site' = other.site
  /\ overlapped' = (overlapped \/ (Running(Here) /\ Running(other)))
  /\ UNCHANGED <<analysis, explanation, first>>
  /\ UNCHANGED scraper_vars

\* The running call is suspended and the waiting one resumes: every local
\* of analyze_website and the session belong to the call.
Switch ==
  /\ other' = Here
  /\ pc' = other.pc
  /\ analysis' = other.analysis
  /\ response' = other.response
  /\ requests' = other.requests
  /\ path_idx' = other.path_idx
  /\ probe_hit' = other.probe_hit
  /\ executed' = other.executed
  /\ failed_step' = other.failed_step
  /\ raised' = other.raised
  /\ site' = other.site
  /\ overlapped' = (overlapped \/ (Running(Here) /\ Running(other)))
  /\ UNCHANGED <<explanation, first>>
  /\ UNCHANGED scraper_vars

PairSites ==
  { s \in Sites :
      /\ s.hit_at \in {0, 2}
      /\ s.fail.raises
      /\ s.raises.step \in {None, "spa"}
      /\ s.raises.e # ""
      /\ \/ s.primary = NoResponse
         \/ /\ s.primary # NoResponse
            /\ \/ s.primary.status_code = "403" /\ s.primary.doc = EmptyDoc
               \/ /\ s.primary.status_code = "200"
                  /\ ~s.primary.doc.is_empty
                  /\ ~s.primary.doc.json
                  /\ s.primary.doc.text_len = 500
                  /\ s.primary.doc.text \in { {}, {F_bundle, F_div_app} } }

InitPair ==
  /\ pc = "idle"
  /\ analysis = DefaultAnalysis(NoUrl)
  /\ response = NoResponse
  /\ requests = <<>>
  /\ path_idx = 0
  /\ probe_hit = FALSE
  /\ executed = <<>>
  /\ failed_step = None
  /\ raised = FALSE
  /\ explanation = <<>>
  /\ first = NoFirst
  /\ site \in PairSites
  /\ \E s \in PairSites : other = [NoOther EXCEPT !.site = s]
  /\ overlapped = FALSE
  /\ NewScraper

NextPair ==
  \/ Call
  \/ SiteFetchOk
  \/ SiteFetchFails
  \/ (~RaisesHere /\ DetectApiBody)
  \/ SiteProbe
  \/ (~RaisesHere /\ ParseHtml)
  \/ (~RaisesHere /\ JavascriptStep)
  \/ (~RaisesHere /\ SpaStep)
  \/ (~RaisesHere /\ JobBoardStep)
  \/ (~RaisesHere /\ SimplicityStep)
  \/ (~RaisesHere /\ AntiBotStep)
  \/ StrategyStep
  \/ SiteRaises
  \/ Switch

SpecPair == InitPair /\ [][NextPair]_vars

(***************************************************************************)
(* AIJobsScraper.get_optimal_strategy called again and again on one       *)
(* scraper.  The site behind a URL is what it is at the time of the call  *)
(* and may have changed since the call before.                            *)
(***************************************************************************)
\* The source configurations the scraper is asked about: the type is 'auto'
\* or configured by hand, and the URL may be missing.
SourceTypes == {"auto", "selenium"}

Sources == [ type : SourceTypes, url : Urls \cup {NoUrl} ]

\* The sites a URL of the scraper stands for: no sub-path is a JSON endpoint.
ScraperSites == { s \in PairSites : s.hit_at = 0 }

\* strategy, confidence, explanation as get_optimal_strategy returns them.
Manual(scraping_type) == <<scraping_type, 100, <<"Manual configuration">>>>

NoUrlFallback ==
  <<"selenium", 50, <<"No URL provided - using selenium fallback">>>>

FromAnalysis(a) ==
  <<a.recommended_strategy, a.confidence, get_strategy_explanation(a)>>

\* self.analysis_cache[url] = analysis
CachePut(cache, url, a) ==
  [u \in DOMAIN cache \cup {url} |-> IF u = url THEN a ELSE cache[u]]

\* The return of a call that needed no analysis.
ReturnsAtOnce(out) ==
  /\ optimal' = out
  /\ UNCHANGED <<pc, analysis, response, requests, path_idx, probe_hit,
                 executed, failed_step, raised, analysis_cache, analyzed>>

\* self.analyzer.analyze_website(url) is entered.
Analyze(url) ==
  /\ analysis' = DefaultAnalysis(url)
  /\ pc' = "fetch"
  /\ analyzed' = [analyzed EXCEPT ![url] = @ + 1]
  /\ optimal' = <<>>
  /\ UNCHANGED <<response, requests, path_idx, probe_hit, executed,
                 failed_step, raised, analysis_cache, returned>>

\* get_optimal_strategy(source_config) up to its return or, for a URL that
\* is not in the cache, up to the call of the analyzer.
GetOptimalStrategy(cfg) ==
  /\ pc = "idle"
  /\ source_config' = cfg
  /\ IF cfg.type # "auto"
     THEN ReturnsAtOnce(Manual(cfg.type)) /\ UNCHANGED returned
     ELSE IF cfg.url = NoUrl
     THEN ReturnsAtOnce(NoUrlFallback) /\ UNCHANGED returned
     ELSE IF cfg.url \in DOMAIN analysis_cache
     THEN LET a == analysis_cache[cfg.url]
          IN  /\ ReturnsAtOnce(FromAnalysis(a))
              /\ returned' =
                   [returned EXCEPT ![cfg.url] =
                      @ \cup {<<a.recommended_strategy, a.confidence>>}]
     ELSE Analyze(cfg.url)
  /\ UNCHANGED <<explanation, first, pair_vars>>

\* Mutant: only an analysis without error is stored.
StoreAndReturn_skips_failed ==
  /\ pc = "done"
  /\ analysis_cache' =
       IF analysis.error = None
       THEN CachePut(analysis_cache, analysis.url, analysis)
       ELSE analysis_cache
  /\ optimal' = FromAnalysis(analysis)
  /\ returned' =
       [returned EXCEPT ![analysis.url] =
          @ \cup {<<analysis.recommended_strategy, analysis.confidence>>}]
  /\ pc' = "idle"
  /\ analysis' = DefaultAnalysis(NoUrl)
  /\ response' = NoResponse
  /\ requests' = <<>>
  /\ path_idx' = 0
  /\ probe_hit' = FALSE
  /\ executed' = <<>>
  /\ failed_step' = None
  /\ UNCHANGED <<raised, explanation, first, site, pair_vars,
                 source_config, analyzed>>

\* The analyzer returned: the result is stored under the URL, explained and
\* handed back; the locals of the analyzer call are gone.
StoreAndReturn ==
  /\ pc = "done"
  /\ analysis_cache' = CachePut(analysis_cache, analysis.url, analysis)
  /\ optimal' = FromAnalysis(analysis)
  /\ returned' =
       [returned EXCEPT ![analysis.url] =
          @ \cup {<<analysis.recommended_strategy, analysis.confidence>>}]
  /\ pc' = "idle"
  /\ analysis' = DefaultAnalysis(NoUrl)
  /\ response' = NoResponse
  /\ requests' = <<>>
  /\ path_idx' = 0
  /\ probe_hit' = FALSE
  /\ executed' = <<>>
  /\ failed_step' = None
  /\ UNCHANGED <<raised, explanation, first, site, pair_vars,
                 source_config, analyzed>>

\* One call of get_optimal_strategy on the site as it is now.
AskStrategy ==
  /\ pc = "idle"
  /\ \E cfg \in Sources : GetOptimalStrategy(cfg)
  /\ site' \in ScraperSites

InitScraper ==
  /\ pc = "idle"
  /\ analysis = DefaultAnalysis(NoUrl)
  /\ response = NoResponse
  /\ requests = <<>>
  /\ path_idx = 0
  /\ probe_hit = FALSE
  /\ executed = <<>>
  /\ failed_step = None
  /\ raised = FALSE
  /\ explanation = <<>>
  /\ first = NoFirst
  /\ site \in ScraperSites
  /\ NoPair
  /\ NewScraper

NextScraper ==
  \/ AskStrategy
  \/ SiteFetchOk
  \/ SiteFetchFails
  \/ (~RaisesHere /\ DetectApiBody)
  \/ SiteProbe
  \/ (~RaisesHere /\ ParseHtml)
  \/ (~RaisesHere /\ JavascriptStep)
  \/ (~RaisesHere /\ SpaStep)
  \/ (~RaisesHere /\ JobBoardStep)
  \/ (~RaisesHere /\ SimplicityStep)
  \/ (~RaisesHere /\ AntiBotStep)
  \/ StrategyStep
  \/ SiteRaises
  \/ StoreAndReturn

SpecScraper == InitScraper /\ [][NextScraper]_vars

(***************************************************************************)
(* The structural part of a call on its own: the call stands after the    *)
(* parse of a body that is not JSON, carries no API marker and whose ten  *)
(* sub-paths all failed, and the body ranges over the threshold cases of  *)
(* the four structural probes.                                            *)
(***************************************************************************)
ProbeFragments ==
  {F_bundle, F_div_app, F_div_class_app, F_div_id_myapp, F_div_class_root,
   F_data_vue}

ProbeDocs ==
  [ is_empty : {FALSE}, json : {FALSE}, text : SUBSET ProbeFragments,
    keywords : KeywordSets, scripts : {1, 6, 10}, templates : {0, 1},
    headings : {0, 1}, anchors : {5, 6}, text_len : {200, 201, 499, 500},
    body_children : {NoBody, 3, 4},
    job_class_tags : { {}, {"div"}, {"li"} } ]

ProbeUrl == [origin |-> "https://example.com", path |-> "/jobs"]

InitProbes ==
  /\ pc = "js"
  /\ \E doc \in ProbeDocs :
       response = [status_code |-> "200", cf_ray |-> FALSE, doc |-> doc]
  /\ analysis = [DefaultAnalysis(ProbeUrl) EXCEPT !.response_time = 2,
                                                  !.status_code = "200"]
  /\ requests = <<ProbeUrl>> \o
                  [i \in 1..Len(api_paths) |->
                     urljoin(base_domain(ProbeUrl), api_paths[i])]
  /\ path_idx = Len(api_paths)
  /\ probe_hit = FALSE
  /\ executed = <<"fetch", "api", "html">>
  /\ failed_step = None
  /\ raised = FALSE
  /\ explanation = <<>>
  /\ first = NoFirst
  /\ site = NoSite
  /\ NoPair
  /\ NewScraper

NextProbes ==
  \/ JavascriptStep
  \/ SpaStep
  \/ JobBoardStep
  \/ SimplicityStep
  \/ AntiBotStep
  \/ StrategyStep

SpecProbes == InitProbes /\ [][NextProbes]_vars

(***************************************************************************)
(* _determine_strategy on its own: every combination of the six signals    *)
(* is handed to step 5.                                                    *)
(***************************************************************************)
StrategyInputs ==
  { [DefaultAnalysis(u) EXCEPT
       !.api_detected = f["api_detected"],
       !.javascript_heavy = f["javascript_heavy"],
       !.simple_html = f["simple_html"],
       !.anti_bot_detected = f["anti_bot_detected"],
       !.spa_detected = f["spa_detected"],
       !.job_board_patterns = f["job_board_patterns"]] :
     u \in Urls, f \in [Signals -> BOOLEAN] }

InitStrategy ==
  /\ pc = "strategy"
  /\ analysis \in StrategyInputs
  /\ response = NoResponse
  /\ requests = <<>>
  /\ path_idx = 0
  /\ probe_hit = FALSE
  /\ executed = <<>>
  /\ failed_step = None
  /\ raised = FALSE
  /\ explanation = <<>>
  /\ first = NoFirst
  /\ site = NoSite
  /\ NoPair
  /\ NewScraper

SpecStrategy == InitStrategy /\ [][StrategyStep]_vars

(***************************************************************************)
(* Properties                                                              *)
(***************************************************************************)
Returned == pc = "done"
PrimaryFailed == failed_step = "fetch"
PrimaryOk == response # NoResponse
AllSignalsFalse == \A k \in Signals : analysis[k] = FALSE
Result == <<analysis.recommended_strategy, analysis.confidence>>

\* C1: whatever the network does, the call never raises and cannot get
\* stuck before it returns, and at every point recommended_strategy is one
\* of api, requests, selenium and confidence lies in [0.0, 1.0].
C1_NeverRaisesResultUsable ==
  /\ ~raised
  /\ analysis.recommended_strategy \in Strategies
  /\ analysis.confidence \in 0..100
  /\ ~Returned => ENABLED Next

W1_ReturnedAfterException ==
  Returned /\ failed_step = "antibot" /\ analysis.api_detected

\* C2: a failed primary fetch returns error set, selenium, confidence 0.0.
C2_FetchFailureResult ==
  (Returned /\ PrimaryFailed) =>
     /\ analysis.error # None
     /\ analysis.recommended_strategy = "selenium"
     /\ analysis.confidence = 0

W2_FetchFailed == Returned /\ PrimaryFailed /\ analysis.error # None

\* C3: after a failed primary fetch nothing else runs: the only request is
\* the primary one, no probe step was executed, all six signals are false
\* and status_code is None.
C3_FetchFailureIsTerminal ==
  PrimaryFailed =>
     /\ Returned
     /\ requests = <<analysis.url>>
     /\ executed = <<"fetch">>
     /\ AllSignalsFalse
     /\ analysis.status_code = None

W3_FetchFailedNothingRan ==
  Returned /\ PrimaryFailed /\ Len(requests) = 1 /\ analysis.response_time = 8

StepSignal ==
  [ api |-> {"api_detected"}, html |-> {}, js |-> {"javascript_heavy"},
    spa |-> {"spa_detected"}, job |-> {"job_board_patterns"},
    simple |-> {"simple_html"}, antibot |-> {"anti_bot_detected"} ]

\* The steps in the order analyze_website runs them.
StepOrder == <<"api", "html", "js", "spa", "job", "simple", "antibot">>

StepIndex(step) == CHOOSE i \in 1..Len(StepOrder) : StepOrder[i] = step

SignalsFrom(step) ==
  UNION { StepSignal[StepOrder[i]] : i \in StepIndex(step)..Len(StepOrder) }

DecisionTable(api, anti, simple, js, spa, job) ==
  CASE api /\ ~anti -> <<"api", 90>>
    [] ~(api /\ ~anti) /\ simple /\ ~js /\ ~spa /\ ~anti ->
         <<"requests", IF job THEN 85 ELSE 80>>
    [] OTHER ->
         <<"selenium", IF anti THEN 40 ELSE IF js \/ spa THEN 80 ELSE 60>>

C6_StrategyIsDecisionTable ==
  Returned =>
    Result = DecisionTable(analysis.api_detected, analysis.anti_bot_detected,
                           analysis.simple_html, analysis.javascript_heavy,
                           analysis.spa_detected, analysis.job_board_patterns)

W6_AntiBotOverJsBump ==
  /\ Returned /\ analysis.anti_bot_detected /\ analysis.javascript_heavy
  /\ analysis.api_detected /\ analysis.simple_html
  /\ Result = <<"selenium", 40>>

\* C7: a returned result of a call whose primary fetch succeeded and that
\* has anti_bot_detected is selenium with confidence 0.4.
C7_AntiBotForcesSelenium40 ==
  (Returned /\ PrimaryOk /\ analysis.anti_bot_detected) =>
     Result = <<"selenium", 40>>

W7_AntiBotWithApiAndSpa ==
  /\ Returned /\ PrimaryOk /\ analysis.anti_bot_detected
  /\ analysis.api_detected /\ analysis.spa_detected

\* C8: once API detection is over, api_detected is true exactly when the
\* primary body is JSON, or carries an API marker, or a sub-path probe
\* that was issued answered 200 with a JSON body.
ApiDetectionOver ==
  PrimaryOk /\ pc \in {"html", "js", "spa", "job", "simple", "antibot",
                       "strategy", "done"}

C8_ApiDetectedIff ==
  ApiDetectionOver =>
     /\ analysis.api_detected <=>
          \/ response.doc.json
          \/ response.doc.text \cap {F_api_path, F_graphql} # {}
          \/ probe_hit
     /\ response.doc.json => analysis.api_detected

W8_ApiFromSubPath ==
  Returned /\ probe_hit /\ analysis.api_detected /\ Len(requests) = 4

\* A div with id app, a bundle.js script, under 500 characters of text.
MinimalShell(doc) ==
  F_div_app \in doc.text /\ F_bundle \in doc.text /\ doc.text_len < 500

NoAntiBotSignal(resp) ==
  /\ F_captcha \notin resp.doc.text
  /\ ~resp.cf_ray
  /\ resp.status_code \notin {"403", "429"}

SimpleJobPage(doc) ==
  /\ doc.headings >= 1
  /\ doc.anchors > 5
  /\ doc.text_len >= 500
  /\ doc.scripts <= 5 /\ doc.templates <= 5
  /\ F_bundle \notin doc.text
  /\ Cardinality(doc.keywords \cap job_keywords) >= 3

PercentText ==
  [ c \in {0, 40, 60, 80, 85, 90} |->
      CASE c = 0 -> "0.0%" [] c = 40 -> "40.0%" [] c = 60 -> "60.0%"
        [] c = 80 -> "80.0%" [] c = 85 -> "85.0%" [] c = 90 -> "90.0%" ]

Explained == explanation # <<>>

Pieces(line) == { line[i] : i \in 1..Len(line) }

\* The warning lines the claim asks for, in its order.
ClaimedWarnings(a) ==
  (IF a.anti_bot_detected THEN <<AntiBotWarning>> ELSE <<>>) \o
  (IF a.response_time > 5 THEN <<SlowWarning>> ELSE <<>>) \o
  (IF a.error # None THEN <<ErrorWarning(a.error)>> ELSE <<>>)

\* C11 as claimed: the explanation of a result carries the confidence as a
\* percentage in its first line, and its further lines are exactly the
\* anti-bot warning iff anti_bot_detected, then the slow-response warning
\* iff response_time > 5, then the error line iff error is not None.
X11_ExplanationWarnings ==
  Explained =>
     /\ PercentText[analysis.confidence] \in Pieces(explanation[1])
     /\ Tail(explanation) = ClaimedWarnings(analysis)

SecondReturned == Returned /\ first # NoFirst

\* C12: two calls on the same URL whose requests are answered the same way
\* return the same six signals, the same status_code and the same
\* recommended_strategy and confidence, whatever the two response times.
C12_SameAnswersSameResult ==
  SecondReturned =>
    \A k \in Signals \cup {"url", "status_code", "recommended_strategy",
                           "confidence"} :
       analysis[k] = first[k]

W12_SecondCallOtherTiming ==
  /\ SecondReturned
  /\ analysis.response_time # first.response_time
  /\ probe_hit /\ analysis.recommended_strategy = "api"

\* C13: one call issues at least 1 and at most 1 + N GET requests, N = 10
\* being the length of the sub-path list, and a sub-path is requested only
\* after a primary fetch that succeeded with a body that is not JSON and
\* carries no API marker.
C13_RequestCount ==
  /\ Len(api_paths) = 10
  /\ Len(requests) <= 1 + Len(api_paths)
  /\ Returned => Len(requests) >= 1
  /\ Len(requests) > 1 =>
       /\ PrimaryOk
       /\ ~response.doc.json
       /\ response.doc.text \cap {F_api_path, F_graphql} = {}

W13_AllSubPathsRequested ==
  Returned /\ Len(requests) = 11 /\ failed_step = None

\* The steps a call logs when nothing fails, for a body with text and for
\* an empty body.
FullRun ==
  <<"fetch", "api", "html", "js", "spa", "job", "simple", "antibot",
    "strategy">>

EmptyBodyRun == <<"fetch", "api", "html", "antibot", "strategy">>

IsPrefix(s, t) ==
  Len(s) <= Len(t) /\ \A i \in 1..Len(s) : s[i] = t[i]

AfterApiDetection ==
  pc \in {"html", "js", "spa", "job", "simple", "antibot", "strategy",
          "done"}

\* C14: the steps run in the fixed order and do not overlap: the log of
\* steps is always a prefix of fetch, api, parse, the four structural
\* probes, anti-bot, strategy; a sub-path is requested only between the
\* primary fetch and the parse; no request is issued once the structural
\* part has begun; and the strategy of a call that ran to its end is the
\* decision table applied to the signals as they are at the return.
C14_StepsInOrder ==
  /\ [](IsPrefix(executed,
                 IF response.doc.is_empty THEN EmptyBodyRun ELSE FullRun))
  /\ []((Returned /\ failed_step = None) =>
          /\ executed[Len(executed)] = "strategy"
          /\ Result = DecisionTable(analysis.api_detected,
                        analysis.anti_bot_detected, analysis.simple_html,
                        analysis.javascript_heavy, analysis.spa_detected,
                        analysis.job_board_patterns))
  /\ [][ /\ (requests' # requests /\ requests # <<>>) =>
              (pc = "api_paths" /\ executed = <<"fetch", "api">>)
         /\ AfterApiDetection => requests' = requests
         /\ Len(executed') <= Len(executed) + 1 ]_vars

W14_FullRunAfterProbes ==
  Returned /\ executed = FullRun /\ Len(requests) = 11

\* C15: the sub-paths are requested one at a time in the order of the
\* list, and none is requested after the first one that answered 200 with
\* a JSON body.
C15_ProbesInListOrder ==
  /\ [](\A i \in 2..Len(requests) :
          requests[i] = [origin |-> analysis.url.origin,
                         path |-> api_paths[i - 1]])
  /\ [](probe_hit => analysis.api_detected)
  /\ [][ /\ Len(requests') <= Len(requests) + 1
         /\ probe_hit => requests' = requests ]_vars

W15_StoppedAtThirdPath ==
  Returned /\ probe_hit /\ Len(requests) = 4

\* A sub-path request was just answered by a failure.
ProbeFailedNow ==
  pc = "api_paths" /\ requests' # requests /\ ~probe_hit'

\* C16: a failing sub-path probe is absorbed: no error is recorded, the
\* next path is tried, and after the last path api_detected is false and
\* the call goes on with the parse.
C16_ProbeFailureAbsorbed ==
  /\ [][ProbeFailedNow =>
          /\ analysis'.error = None /\ failed_step' = None /\ ~raised'
          /\ IF path_idx < Len(api_paths)
             THEN pc' = "api_paths" /\ path_idx' = path_idx + 1
             ELSE pc' = "html" /\ ~analysis'.api_detected]_vars
  /\ []((pc = "html" /\ Len(requests) = 1 + Len(api_paths) /\ ~probe_hit) =>
          ~analysis.api_detected /\ analysis.error = None /\ ENABLED ParseHtml)

W16_AllProbesFailedRunComplete ==
  /\ Returned /\ ~probe_hit /\ Len(requests) = 11
  /\ analysis.error = None /\ ~analysis.api_detected
  /\ executed = FullRun /\ analysis.simple_html

Distinct(s) == \A i, j \in 1..Len(s) : s[i] = s[j] => i = j

\* C17 as claimed: no URL is requested twice in one call, and a failed
\* primary fetch is followed by no request.
X17_NoUrlRequestedTwice ==
  /\ Distinct(requests)
  /\ PrimaryFailed => requests = <<analysis.url>>

\* C17 amended: nothing is retried.  The primary URL is requested once, as
\* the first request, and each sub-path at most once; a URL is requested
\* twice only when the primary URL is itself one of the sub-path URLs of
\* its host; a failed primary fetch is followed by no request.
C17_NoRetries ==
  /\ [](Distinct(SubSeq(requests, 2, Len(requests))))
  /\ [](requests # <<>> => requests[1] = analysis.url)
  /\ [](~Distinct(requests) =>
          \E k \in 1..Len(api_paths) : analysis.url.path = api_paths[k])
  /\ [](PrimaryFailed => requests = <<analysis.url>>)
  /\ [][PrimaryFailed => requests' = requests]_vars

W17_PrimaryUrlProbedAgain ==
  Returned /\ \E i \in 2..Len(requests) : requests[i] = requests[1]

\* The step has run in this call.
Computed(step) == \E i \in 1..Len(executed) : executed[i] = step

\* C18 as claimed: simple_html iff a heading, more than 5 anchors, more
\* than 200 characters of text and fewer than 10 template and script
\* elements together.
X18_SimpleBelowTen ==
  Computed("simple") =>
    (analysis.simple_html <=>
       /\ response.doc.headings >= 1
       /\ response.doc.anchors > 5
       /\ response.doc.text_len > 200
       /\ response.doc.templates + response.doc.scripts < 10)

\* C18 amended: simple_html iff a heading, more than 5 anchors, more than
\* 200 characters of text and at most 10 template and script elements
\* together: ten of them are still simple, eleven are not.
C18_SimpleAtMostTen ==
  Computed("simple") =>
    (analysis.simple_html <=>
       /\ response.doc.headings >= 1
       /\ response.doc.anchors > 5
       /\ response.doc.text_len > 200
       /\ response.doc.templates + response.doc.scripts <= 10)

W18_TenScriptsStillSimple ==
  /\ Computed("simple") /\ analysis.simple_html
  /\ response.doc.templates + response.doc.scripts = 10

\* C19 as claimed: job_board_patterns iff an element of any tag has a class
\* matching a job pattern, or at least 3 of the 7 keywords occur.
X19_JobClassOnAnyTag ==
  Computed("job") =>
    (analysis.job_board_patterns <=>
       \/ response.doc.job_class_tags # {}
       \/ Cardinality(response.doc.keywords \cap
            {"apply now", "job title", "company name", "location",
             "salary", "full-time", "part-time"}) >= 3)

\* C19 amended: job_board_patterns iff a div, article or section element
\* has a class matching a job pattern, or at least 3 of the 7 keywords
\* occur; a matching class on any other tag does not count.
C19_JobClassOnSearchedTags ==
  Computed("job") =>
    (analysis.job_board_patterns <=>
       \/ response.doc.job_class_tags \cap {"div", "article", "section"} # {}
       \/ Cardinality(response.doc.keywords \cap
            {"apply now", "job title", "company name", "location",
             "salary", "full-time", "part-time"}) >= 3)

W19_JobClassOnListItem ==
  /\ Computed("job") /\ ~analysis.job_board_patterns
  /\ response.doc.job_class_tags = {"li"}

\* The number of the four indicators of javascript_heavy that hold, the
\* third one being the occurrence of one of `markers`.
JsIndicators(doc, markers) ==
  B2N(doc.scripts > 5) + B2N(doc.text \cap {F_bundle, F_data_vue} # {})
    + B2N(doc.text \cap markers # {}) + B2N(doc.text_len < 500)

\* C20 as claimed: javascript_heavy iff at least 2 of the four indicators
\* hold, the dynamic-root marker being ng-app, v-app, data-react, data-vue
\* or a div whose id or class contains app or root.
X20_DynamicRootContains ==
  Computed("js") =>
    (analysis.javascript_heavy <=>
       JsIndicators(response.doc,
         {F_data_vue, F_div_app, F_div_class_app, F_div_id_myapp,
          F_div_class_root}) >= 2)

\* C20 amended: javascript_heavy iff at least 2 of the four indicators
\* hold, the dynamic-root marker being ng-app, v-app, data-react, data-vue,
\* a div whose id is exactly app or root, or a div whose class contains
\* app.
C20_DynamicRootExactId ==
  Computed("js") =>
    (analysis.javascript_heavy <=>
       JsIndicators(response.doc,
         {F_data_vue, F_div_app, F_div_class_app}) >= 2)

W20_RootClassIsNoMarker ==
  /\ Computed("js") /\ ~analysis.javascript_heavy
  /\ response.doc.text = {F_div_class_root, F_div_id_myapp}
  /\ response.doc.text_len < 500

\* C22: anti_bot_detected iff the primary body contains an anti-bot keyword,
\* or the primary response carries the cf-ray header, or the primary status
\* is 403 or 429.
C22_AntiBotIff ==
  (Computed("antibot") /\ failed_step # "antibot") =>
    (analysis.anti_bot_detected <=>
       \/ F_captcha \in response.doc.text
       \/ response.cf_ray
       \/ response.status_code \in {"403", "429"})

W22_AntiBotByStatus429 ==
  /\ Returned /\ analysis.anti_bot_detected
  /\ response.status_code = "429" /\ ~response.cf_ray
  /\ F_captcha \notin response.doc.text

EmptyBody == PrimaryOk /\ response.doc.is_empty

SignalValue(step) ==
  CASE step = "api" ->
         (response.doc.json \/ HasApiMarker(response.doc) \/ probe_hit)
    [] step = "js" -> _analyze_javascript_dependency(response.doc)
    [] step = "spa" -> _detect_spa_patterns(response.doc)
    [] step = "job" -> _detect_job_board_patterns(response.doc)
    [] step = "simple" -> _analyze_html_simplicity(response.doc)
    [] step = "antibot" -> _detect_anti_bot_measures(response)

\* C27: when an exception leaves a step after a successful primary fetch,
\* the result has the message of the exception in error, the primary status
\* in status_code, the signals of the steps before the failing one as they
\* were computed, the signals of the failing and the later steps false,
\* and selenium/0.0.
C27_ExceptionAfterFetch ==
  (Returned /\ failed_step \in RaisingSteps) =>
    /\ analysis.error \in {"", "exception in " \o failed_step}
    /\ analysis.status_code = response.status_code
    /\ PrimaryOk
    /\ Result = <<"selenium", 0>>
    /\ \A k \in SignalsFrom(failed_step) : analysis[k] = FALSE
    /\ \A i \in 1..(StepIndex(failed_step) - 1) :
         \A k \in StepSignal[StepOrder[i]] :
           analysis[k] = SignalValue(StepOrder[i])

W27_SimplicityRaised ==
  /\ Returned /\ failed_step = "simple"
  /\ analysis.javascript_heavy /\ analysis.job_board_patterns
  /\ analysis.error = "exception in simple"
  /\ analysis.status_code = "403"

\* C28: a returned confidence is one of 0.0, 0.4, 0.6, 0.8, 0.85, 0.9; it
\* is 0.0 exactly when error is set; a result without error has at least
\* 0.4 and is not skipped by the scraper.
C28_ConfidenceValues ==
  Returned =>
    /\ analysis.confidence \in {0, 40, 60, 80, 85, 90}
    /\ analysis.confidence = 0 <=> analysis.error # None
    /\ analysis.error = None =>
         (analysis.confidence >= 40 /\ ~LowConfidence(analysis.confidence))

W28_LowestResolvedConfidence ==
  Returned /\ analysis.error = None /\ analysis.confidence = 40

\* The number of element children under body; markup without a body tag
\* puts no element under body.
ChildrenUnderBody(doc) ==
  IF doc.body_children = NoBody THEN 0 ELSE doc.body_children

\* C21 as claimed: spa_detected iff a single-page-app marker occurs in the
\* raw body or body has at most 3 direct element children.
X21_SpaByFewChildren ==
  Computed("spa") =>
    (analysis.spa_detected <=>
       \/ F_div_app \in response.doc.text
       \/ ChildrenUnderBody(response.doc) <= 3)

\* C21 amended: spa_detected iff a single-page-app marker occurs in the raw
\* body, or the parser finds a body element and it has at most 3 direct
\* element children; markup without a body tag and without marker yields
\* false, as does a body with more than 3 element children and no marker.
C21_SpaByMarkerOrSmallBody ==
  Computed("spa") =>
    (analysis.spa_detected <=>
       \/ F_div_app \in response.doc.text
       \/ (response.doc.body_children # NoBody
             /\ response.doc.body_children <= 3))

W21_NoBodyTagNoSpa ==
  /\ Computed("spa") /\ ~analysis.spa_detected
  /\ response.doc.body_children = NoBody

\* A record that agrees with `a` on the five fields named and carries the
\* defaults everywhere else.
FiveFields(a) ==
  [DefaultAnalysis(NoUrl) EXCEPT
     !.recommended_strategy = a.recommended_strategy,
     !.confidence = a.confidence,
     !.anti_bot_detected = a.anti_bot_detected,
     !.response_time = a.response_time,
     !.error = a.error]

\* C26: get_strategy_explanation leaves the record it is given as it is,
\* issues no request, and its output is the same for any record with the
\* same recommended_strategy, confidence, anti_bot_detected, response_time
\* and error.
C26_ExplanationIsPure ==
  /\ [](Explained =>
          explanation = get_strategy_explanation(FiveFields(analysis)))
  /\ [][(explanation = <<>> /\ explanation' # <<>>) =>
          /\ analysis' = analysis
          /\ requests' = requests
          /\ response' = response /\ pc' = pc]_vars

W26_ExplainedBlockedApi ==
  /\ Explained /\ analysis.status_code = "403" /\ analysis.api_detected
  /\ analysis.anti_bot_detected /\ Len(requests) = 3

\* C29: anti_bot_detected and status_code come from the primary response
\* alone: while the sub-paths are probed no field of the result but
\* api_detected changes, whatever status or body a sub-path answers with,
\* and the values returned are those of the primary response.
C29_SubPathsOnlyTouchApi ==
  /\ []((Computed("antibot") /\ failed_step # "antibot") =>
          (analysis.anti_bot_detected <=>
             \/ F_captcha \in response.doc.text
             \/ response.cf_ray
             \/ response.status_code \in {"403", "429"}))
  /\ []((PrimaryOk /\ pc # "fetch") =>
          analysis.status_code = response.status_code)
  /\ [][pc = "api_paths" =>
          analysis' \in {analysis,
                         [analysis EXCEPT !.api_detected = TRUE],
                         [analysis EXCEPT !.api_detected = FALSE]}]_vars

W29_BlockedSubPathsCleanPrimary ==
  /\ Returned /\ failed_step = None /\ Len(requests) = 11
  /\ site.fail.status_code = "403" /\ site.fail.captcha
  /\ ~analysis.anti_bot_detected /\ analysis.status_code = "200"

\* The number of steps a call can still take, at most.
StepsLeft ==
  CASE pc = "idle" -> Len(api_paths) + 11
    [] pc = "fetch" -> Len(api_paths) + 10
    [] pc = "api" -> Len(api_paths) + 9
    [] pc = "api_paths" -> Len(api_paths) - path_idx + 9
    [] pc = "html" -> 8
    [] pc = "js" -> 7
    [] pc = "spa" -> 6
    [] pc = "job" -> 5
    [] pc = "simple" -> 4
    [] pc = "antibot" -> 3
    [] pc = "strategy" -> 2
    [] pc = "done" -> 0

\* C24: a call that has been entered returns: every step of it lowers the
\* number of steps left, no more than 1 + N requests are issued by one
\* call, and under fair scheduling the return is reached.
C24_CallReturns ==
  /\ [](StepsLeft >= 0 /\ Len(requests) <= 1 + Len(api_paths))
  /\ [][pc \notin {"idle", "done"} => StepsLeft' < StepsLeft]_vars
  /\ (pc = "fetch") ~> Returned

W24_LongestCallReturned ==
  /\ Returned /\ Len(requests) = 1 + Len(api_paths)
  /\ Len(executed) = 9 /\ first # NoFirst

\* The call in context c, once it returned, returned what it returns alone.
AsAlone(c) ==
  c.pc = "done" =>
    c.analysis = AnalyzeAlone(c.analysis.url, c.site, c.analysis.response_time)

\* C25: two analyze_website calls that run concurrently, each on its own
\* analyzer and session, each return under every interleaving of their steps
\* the result they return when run alone, and a step of the running call
\* leaves everything the waiting call owns (its result record with the
\* signals included) as it was: the waiting call's context only changes
\* when the scheduler swaps the two.
C25_ConcurrentCallsIndependent ==
  /\ [](AsAlone(Here) /\ AsAlone(other))
  /\ [][other' # other => (other' = Here /\ Here' = other)]_vars

\* Both calls returned after running interleaved, one with an API result
\* and the other with an error.
W25_InterleavedCallsReturned ==
  /\ overlapped
  /\ pc = "done" /\ other.pc = "done"
  /\ analysis.recommended_strategy = "api"
  /\ other.analysis.error # None
  /\ analysis.url # other.analysis.url

\* get_optimal_strategy is being called on an 'auto' source whose URL is in
\* the cache.
CachedCall ==
  /\ pc = "idle"
  /\ source_config'.type = "auto"
  /\ source_config'.url \in DOMAIN analysis_cache

\* get_optimal_strategy is being called on a source configured by hand.
ManualCall == pc = "idle" /\ source_config'.type # "auto"

\* C30: over any sequence of get_optimal_strategy calls on one scraper,
\* analyze_website is invoked at most once per URL; the result of that
\* invocation, a failed one included, is in analysis_cache from its return
\* on and is never replaced; every call for the URL hands back the same
\* (strategy, confidence); a call that finds the URL in the cache returns
\* the cached strategy and confidence at once, without a request and
\* without invoking the analyzer; a call on a manually configured source
\* returns at once, invokes no analysis and leaves the cache as it is.
C30_AnalyzedOncePerUrl ==
  /\ [](\A u \in Urls :
          /\ analyzed[u] <= 1
          /\ Cardinality(returned[u]) <= 1
          /\ (analyzed[u] = 1 /\ pc = "idle") => u \in DOMAIN analysis_cache
          /\ u \in DOMAIN analysis_cache =>
               returned[u] = {<<analysis_cache[u].recommended_strategy,
                                analysis_cache[u].confidence>>})
  /\ [][\A u \in DOMAIN analysis_cache :
          u \in DOMAIN analysis_cache' /\ analysis_cache'[u] = analysis_cache[u]
       ]_vars
  /\ [][CachedCall =>
          /\ pc' = "idle"
          /\ UNCHANGED <<requests, analyzed, analysis_cache>>
          /\ optimal'[1] = analysis_cache[source_config'.url].recommended_strategy
          /\ optimal'[2] = analysis_cache[source_config'.url].confidence
       ]_vars
  /\ [][ManualCall =>
          /\ pc' = "idle"
          /\ UNCHANGED <<requests, analyzed, analysis_cache>>
          /\ optimal' = Manual(source_config'.type)
       ]_vars

\* A URL whose first analysis failed to connect was asked about again when
\* the site answers, and the failed result came back from the cache.
W30_FailedResultServedFromCache ==
  /\ pc = "idle"
  /\ source_config.type = "auto"
  /\ source_config.url \in DOMAIN analysis_cache
  /\ analysis_cache[source_config.url].error = "Failed to connect to website"
  /\ site.primary # NoResponse
  /\ optimal # <<>>
  /\ optimal[1] = "selenium" /\ optimal[2] = 0
  /\ analyzed[source_config.url] = 1

====
